---- MODULE Spec2Model ----
(***************************************************************************)
(* Authorization-and-audit core of the user management API:                *)
(*   - RBAC.hasPermission / RBAC.canAccessResource (utils/rbac.js)         *)
(*   - the JWT credential issuer (utils/jwt.js)                            *)
(*   - authenticateToken (middleware/auth.js) and the RBAC gate            *)
(*   - AuthService / RoleService / UserService and their routes            *)
(*                                                                         *)
(* JavaScript strings are modelled as sequences of one-character strings,  *)
(* so that split, endsWith, replace and includes are computed as the       *)
(* engine computes them.  An optional value (null / undefined) is None,    *)
(* a present value x is Some(x).                                           *)
(***************************************************************************)
EXTENDS Integers, Sequences, FiniteSets, TLC

\* ------------------------------------------------------------------------
\* Optional values
\* ------------------------------------------------------------------------
None == <<>>

Some(x) == <<x>>

IsSome(o) == Len(o) = 1

Val(o) == o[1]

\* ------------------------------------------------------------------------
\* Strings as character sequences
\* ------------------------------------------------------------------------
COLON == <<":">>

SELF_SUFFIX == <<":", "s", "e", "l", "f">>

WILDCARD_SUFFIX == <<":", "*">>

STAR_STAR == <<"*", ":", "*">>

UNDEFINED_STR == <<"u", "n", "d", "e", "f", "i", "n", "e", "d">>

USER == <<"u", "s", "e", "r">>

ROLE == <<"r", "o", "l", "e">>

AUDIT == <<"a", "u", "d", "i", "t">>

STAR == <<"*">>

READ == <<"r", "e", "a", "d">>

CREATE == <<"c", "r", "e", "a", "t", "e">>

UPDATE == <<"u", "p", "d", "a", "t", "e">>

DELETE == <<"d", "e", "l", "e", "t", "e">>

SELFIE == <<"s", "e", "l", "f", "i", "e">>

\* "resource:action"
Perm(r, a) == r \o COLON \o a

\* "resource:action:self"
SelfPerm(r, a) == r \o COLON \o a \o SELF_SUFFIX

\* Array.prototype.includes on an array of strings
Includes(arr, s) == \E i \in 1..Len(arr) : arr[i] = s

\* String.prototype.startsWith at a given position (1-based)
MatchesAt(s, pat, i) ==
    /\ i + Len(pat) - 1 <= Len(s)
    /\ \A k \in 1..Len(pat) : s[i + k - 1] = pat[k]

\* String.prototype.endsWith
EndsWith(s, suf) ==
    /\ Len(suf) <= Len(s)
    /\ MatchesAt(s, suf, Len(s) - Len(suf) + 1)

\* String.prototype.indexOf (1-based, 0 when absent)
IndexOf(s, pat) ==
    IF \E i \in 1..Len(s) : MatchesAt(s, pat, i)
    THEN CHOOSE i \in 1..Len(s) :
            /\ MatchesAt(s, pat, i)
            /\ \A j \in 1..(i - 1) : ~MatchesAt(s, pat, j)
    ELSE 0

\* String.prototype.replace(pat, '') with a string pattern: removes the
\* FIRST occurrence of pat only
ReplaceFirstWithEmpty(s, pat) ==
    LET i == IndexOf(s, pat) IN
    IF i = 0 THEN s
    ELSE SubSeq(s, 1, i - 1) \o SubSeq(s, i + Len(pat), Len(s))

\* requiredPermission.split(':')[0]
SplitFirst(s) ==
    LET i == IndexOf(s, COLON) IN
    IF i = 0 THEN s ELSE SubSeq(s, 1, i - 1)

\* String(x) as used by string concatenation: undefined becomes "undefined"
ToStr(o) == IF IsSome(o) THEN Val(o) ELSE UNDEFINED_STR

\* /^[a-zA-Z0-9*]+:[a-zA-Z0-9*]+(:self)?$/ : "resource:action" or
\* "resource:action:self" with non-empty resource and action
WellFormed(p) ==
    LET colons == {i \in 1..Len(p) : p[i] = ":"} IN
    \/ /\ Cardinality(colons) = 1
       /\ \E i \in colons : 1 < i /\ i < Len(p)
    \/ /\ Cardinality(colons) = 2
       /\ EndsWith(p, SELF_SUFFIX)
       /\ \E i \in colons : 1 < i /\ i + 1 < Len(p) - Len(SELF_SUFFIX) + 1

\* ------------------------------------------------------------------------
\* Outcomes of a JavaScript call: a returned boolean or a thrown TypeError
\* ------------------------------------------------------------------------
Return(b) == [kind |-> "return", value |-> b]

TypeError == [kind |-> "throw", value |-> FALSE]

\* ------------------------------------------------------------------------
\* RBAC.hasPermission(user, requiredPermission)
\*   user     : None | Some([userId, role])
\*   role     : None | Some([permissions])
\*   permissions : None | Some(array of strings)
\*   required : None | Some(string)
\* ------------------------------------------------------------------------

\* mutant: the super-admin test looks for the bare "*" instead of "*:*"
HasUniversalWildcard_bareStar(perms) ==
    IsSome(perms) /\ Includes(Val(perms), STAR)

\* user.role.permissions && user.role.permissions.includes('*:*')
HasUniversalWildcard(perms) ==
    IsSome(perms) /\ Includes(Val(perms), STAR_STAR)

\* mutant: the wildcard is built from the whole requested permission
ResourceWildcard_wholePermission(required) ==
    required \o WILDCARD_SUFFIX

\* const [resource, action] = requiredPermission.split(':'); `${resource}:*`
ResourceWildcard(required) ==
    SplitFirst(required) \o WILDCARD_SUFFIX

\* requiredPermission.replace(':self', '')
BasePermission(required) ==
    ReplaceFirstWithEmpty(required, SELF_SUFFIX)

RECURSIVE hasPermission(_, _)
hasPermission(user, required) ==
    IF ~IsSome(user) \/ ~IsSome(Val(user).role)
    THEN Return(FALSE)
    ELSE
      LET perms == Val(Val(user).role).permissions IN
      IF HasUniversalWildcard(perms)
      THEN Return(TRUE)
      ELSE IF IsSome(perms) /\ IsSome(required) /\ Includes(Val(perms), Val(required))
      THEN Return(TRUE)
      ELSE IF ~IsSome(required)
      THEN TypeError      \* undefined.split(':')
      ELSE IF IsSome(perms) /\ Includes(Val(perms), ResourceWildcard(Val(required)))
      THEN Return(TRUE)
      ELSE IF EndsWith(Val(required), SELF_SUFFIX)
      THEN hasPermission(user, Some(BasePermission(Val(required))))
      ELSE Return(FALSE)

\* ------------------------------------------------------------------------
\* RBAC.canAccessResource(user, resourceUserId, requiredPermission)
\*   user.userId : None | Some(string)   (ObjectId.toString())
\* ------------------------------------------------------------------------

\* mutant: ownership decided by a prefix match of the two id strings
IsResourceOwner_prefix(userId, resourceUserId) ==
    /\ IsSome(userId)
    /\ MatchesAt(resourceUserId, Val(userId), 1)

\* user.userId && user.userId.toString() === resourceUserId.toString()
IsResourceOwner(userId, resourceUserId) ==
    /\ IsSome(userId)
    /\ Val(userId) = resourceUserId

canAccessResource(user, resourceUserId, required) ==
    IF ~IsSome(user)
    THEN TypeError        \* null.userId
    ELSE IF IsSome(Val(user).userId) /\ ~IsSome(resourceUserId)
    THEN TypeError        \* undefined.toString()
    ELSE IF IsResourceOwner(Val(user).userId, Val(resourceUserId))
    THEN hasPermission(user, Some(ToStr(required) \o SELF_SUFFIX))
    ELSE hasPermission(user, required)

\* ------------------------------------------------------------------------
\* Inputs of the permission evaluator
\* ------------------------------------------------------------------------
MaxPerms == 2

EvalResources == {USER, ROLE}

EvalActions == {READ, SELFIE}

\* well-formed permission strings over the evaluated resources and actions
EvalPermissions ==
    {Perm(r, a) : r \in EvalResources, a \in EvalActions}
    \cup {SelfPerm(r, a) : r \in EvalResources, a \in EvalActions}
    \cup {Perm(r, STAR) : r \in EvalResources}
    \cup {STAR_STAR}

\* strings that are not of the form resource:action[:self]
MalformedPermissions == {<<>>, USER, <<":">>, USER \o <<":">>}

EvalPermissionLists ==
    UNION {[1..n -> EvalPermissions] : n \in 0..MaxPerms}

EvalRoles ==
    {None, Some([permissions |-> None])}
    \cup {Some([permissions |-> Some(l)]) : l \in EvalPermissionLists}

EvalUserIds == {None, Some(<<"a", "1">>)}

EvalUsers ==
    {None} \cup {Some([userId |-> u, role |-> r]) : u \in EvalUserIds, r \in EvalRoles}

EvalOwnerIds == {<<"a", "1">>, <<"a", "1", "2">>, <<"1">>}

EvalRequired ==
    {None} \cup {Some(p) : p \in EvalPermissions \cup MalformedPermissions}

Pending == [kind |-> "pending", value |-> FALSE]

VARIABLES evalUser, evalOwner, evalRequired, evalHas, evalCan

evalVars == <<evalUser, evalOwner, evalRequired, evalHas, evalCan>>

\* arguments and result of the actor resolution of the audit interceptor
VARIABLES actorUser, actorAction, actorResponse, actorResult

actorVars == <<actorUser, actorAction, actorResponse, actorResult>>

\* the calls of the side-effect free functions
pureVars == <<evalVars, actorVars>>

EvalIdle ==
    /\ evalUser = None
    /\ evalOwner = <<"a", "1">>
    /\ evalRequired = None
    /\ evalHas = Pending
    /\ evalCan = Pending

EvalInit ==
    /\ evalUser \in EvalUsers
    /\ evalOwner \in EvalOwnerIds
    /\ evalRequired \in EvalRequired
    /\ evalHas = Pending
    /\ evalCan = Pending

\* a call of RBAC.hasPermission(user, requiredPermission)
CallHasPermission ==
    /\ evalHas = Pending
    /\ evalHas' = hasPermission(evalUser, evalRequired)
    /\ UNCHANGED <<evalUser, evalOwner, evalRequired, evalCan, actorVars>>

\* a call of RBAC.canAccessResource(user, resourceUserId, requiredPermission)
CallCanAccessResource ==
    /\ evalCan = Pending
    /\ evalCan' = canAccessResource(evalUser, Some(evalOwner), evalRequired)
    /\ UNCHANGED <<evalUser, evalOwner, evalRequired, evalHas, actorVars>>

\* ------------------------------------------------------------------------
\* The record store, the clock and the credentials held by clients
\* ------------------------------------------------------------------------
MaxUsers == 2

MaxTicks == 1

MaxRequests == 4

\* number of service calls in progress at the same time
MaxWorkers == 2

MaxNewRoles == 1

MaxActors == 2

NumSeedRoles == 4

UserIds == 1..MaxUsers

RoleIds == 1..(NumSeedRoles + MaxNewRoles)

Digits == <<"1", "2", "3", "4", "5", "6", "7", "8", "9">>

\* ObjectId.prototype.toString() / toJSON() of a user id and of a role id
UserIdToString(u) == <<"a", Digits[u]>>

RoleIdToString(r) == <<"b", Digits[r]>>

Emails == {"admin@gmail.com", "user@example.com"}

Passwords == {"Admin123", "secret1"}

\* bcrypt.hash and bcrypt.compare
BcryptHash(p) == <<"bcrypt", p>>

BcryptCompare(candidate, hash) == hash = BcryptHash(candidate)

\* process.env.JWT_ACCESS_SECRET, process.env.JWT_REFRESH_SECRET
JWT_ACCESS_SECRET == "your-secret-key"

JWT_REFRESH_SECRET == "your-refresh-secret-key"

\* token lifetimes in minutes: '15m', '7d', '1h'
JWT_ACCESS_EXPIRES_IN == 15

JWT_REFRESH_EXPIRES_IN == 10080

RESET_TOKEN_EXPIRES_IN == 60

\* user.resetPasswordExpires = Date.now() + 3600000
RESET_FIELD_EXPIRES_IN == 60

\* Role.createDefaultRoles
DefaultRoles ==
    <<[name |-> "super-admin", permissions |-> <<STAR_STAR>>],
      [name |-> "admin",
       permissions |-> <<Perm(USER, STAR), Perm(ROLE, STAR), Perm(AUDIT, READ)>>],
      [name |-> "moderator",
       permissions |-> <<Perm(USER, READ), Perm(USER, UPDATE), Perm(AUDIT, READ)>>],
      [name |-> "user",
       permissions |-> <<SelfPerm(USER, READ), SelfPerm(USER, UPDATE)>>]>>

VARIABLES
    users,       \* users collection: user id -> None | Some(document)
    roles,       \* roles collection: role id -> None | Some(document)
    audit,       \* audit log collection, in insertion order
    auditUp,     \* the audit log collection accepts writes
    nextUserId,  \* next fresh user ObjectId
    nextRoleId,  \* next fresh role ObjectId
    now,         \* clock, in minutes
    ticks,       \* number of clock advances so far
    issued,      \* bearer strings handed out to clients so far
    spent,       \* reset tokens with which a client has completed a reset
    req,         \* the request travelling through a protected route
    served,      \* number of requests received so far
    pending,     \* per concurrent service call: what it holds across an await
    resp         \* response of the last /auth request

storeVars == <<users, roles, audit, nextUserId, nextRoleId>>

\* what the server itself never changes: the availability of the audit store
envVars == <<auditUp>>

sysVars == <<users, roles, audit, auditUp, nextUserId, nextRoleId, now, ticks, issued, spent,
            req, served, pending, resp>>

vars == <<evalUser, evalOwner, evalRequired, evalHas, evalCan,
          actorUser, actorAction, actorResponse, actorResult,
          users, roles, audit, auditUp, nextUserId, nextRoleId, now, ticks, issued, spent,
          req, served, pending, resp>>

\* service calls that the event loop may interleave at their awaits
Workers == 1..MaxWorkers

\* the server is ready for the next request
Idle == ~IsSome(req) /\ served < MaxRequests

\* the request in flight has reached middleware s
Stage(s) == IsSome(req) /\ Val(req).stage = s

\* ------------------------------------------------------------------------
\* jsonwebtoken: a token is its signed content
\* ------------------------------------------------------------------------
\* jwt.sign(payload, secret, { expiresIn })
JwtSign(payload, secret, expiresIn) ==
    [sig |-> secret, iat |-> now, exp |-> now + expiresIn,
     userId |-> payload.userId, email |-> payload.email,
     roleId |-> payload.roleId, permissions |-> payload.permissions,
     type |-> payload.type]

\* jwt.verify(token, secret): Some(decoded) or None when it throws
JwtVerify(token, secret) ==
    IF token.sig = secret /\ now < token.exp THEN Some(token) ELSE None

\* a bearer string that no issuer of this server signed
ForgedToken ==
    [sig |-> "unknown", iat |-> 0, exp |-> JWT_REFRESH_EXPIRES_IN,
     userId |-> UserIdToString(1), email |-> None, roleId |-> None,
     permissions |-> None, type |-> None]

\* Model.findById(...).populate('role') of a stored user document
Populate(u) ==
    LET doc == Val(users[u]) IN
    [_id |-> u, email |-> doc.email, isActive |-> doc.isActive,
     role |-> IF doc.role \in RoleIds /\ IsSome(roles[doc.role])
              THEN Some([_id |-> doc.role,
                         name |-> Val(roles[doc.role]).name,
                         permissions |-> Some(Val(roles[doc.role]).permissions)])
              ELSE None]

\* User.findById with the id string carried by a token
FindUserByIdString(s) ==
    {u \in UserIds : UserIdToString(u) = s /\ IsSome(users[u])}

\* User.findOne({ email })
FindUserByEmail(e) ==
    {u \in UserIds : IsSome(users[u]) /\ Val(users[u]).email = e}

\* Role.findOne({ name })
FindRoleByName(n) ==
    {r \in RoleIds : IsSome(roles[r]) /\ Val(roles[r]).name = n}

\* mutant: the payload is built from a role that was not populated
generateAccessToken_unpopulated(user) ==
    IF ~IsSome(user.role) THEN None
    ELSE Some(JwtSign([userId |-> UserIdToString(user._id),
                       email |-> Some(user.email),
                       roleId |-> None,
                       permissions |-> Some(<<>>),
                       type |-> None],
                      JWT_ACCESS_SECRET, JWT_ACCESS_EXPIRES_IN))

\* generateAccessToken(user): None when user.role is null (TypeError)
generateAccessToken(user) ==
    IF ~IsSome(user.role) THEN None
    ELSE Some(JwtSign([userId |-> UserIdToString(user._id),
                       email |-> Some(user.email),
                       roleId |-> Some(RoleIdToString(Val(user.role)._id)),
                       permissions |-> Val(user.role).permissions,
                       type |-> None],
                      JWT_ACCESS_SECRET, JWT_ACCESS_EXPIRES_IN))

\* generateRefreshToken(user)
generateRefreshToken(user) ==
    JwtSign([userId |-> UserIdToString(user._id), email |-> None,
             roleId |-> None, permissions |-> None, type |-> None],
            JWT_REFRESH_SECRET, JWT_REFRESH_EXPIRES_IN)

\* generatePasswordResetToken(user)
generatePasswordResetToken(user) ==
    JwtSign([userId |-> UserIdToString(user._id), email |-> None,
             roleId |-> None, permissions |-> None,
             type |-> Some("password-reset")],
            JWT_ACCESS_SECRET, RESET_TOKEN_EXPIRES_IN)

\* verifyAccessToken(token): Some(decoded) or None when it throws
verifyAccessToken(token) == JwtVerify(token, JWT_ACCESS_SECRET)

\* mutant: the refresh token is verified against the access secret
verifyRefreshToken_accessSecret(token) == JwtVerify(token, JWT_ACCESS_SECRET)

\* verifyRefreshToken(token)
verifyRefreshToken(token) == JwtVerify(token, JWT_REFRESH_SECRET)

\* verifyPasswordResetToken(token)
verifyPasswordResetToken(token) ==
    LET decoded == JwtVerify(token, JWT_ACCESS_SECRET) IN
    IF IsSome(decoded) /\ Val(decoded).type # Some("password-reset")
    THEN None
    ELSE decoded

\* ------------------------------------------------------------------------
\* Audit records and /auth responses
\* ------------------------------------------------------------------------
\* a JavaScript object with the keys the audit snapshots are made of; an
\* absent key is None
Obj(id, email, reason, name, permissions, password, resetPasswordToken) ==
    [_id |-> id, email |-> email, reason |-> reason, name |-> name,
     permissions |-> permissions, password |-> password,
     resetPasswordToken |-> resetPasswordToken]

\* {}
EmptyObj == Obj(None, None, None, None, None, None, None)

\* mutant: AuditLogger.log lets the failure of auditLog.save() escape
LogThrows_rethrow(up) == ~up

\* AuditLogger.log: try { ...save() } catch (error) { ...; return null }
LogThrows(up) == FALSE

\* AuditLogger.log(logData): one more document in the audit collection, or
\* none when auditLog.save() fails
AuditLog(log, userId, action, resource, resourceId, before, after) ==
    IF auditUp
    THEN Append(log, [userId |-> userId, action |-> action,
                      resource |-> resource, resourceId |-> resourceId,
                      before |-> before, after |-> after])
    ELSE log

\* AuditLogger.sanitizeData(data): null stays null, the key 'password' is
\* deleted from a copy ('token' and 'secret' are no keys of these objects)
sanitizeData(data) ==
    IF ~IsSome(data) THEN None
    ELSE Some([Val(data) EXCEPT !.password = None])

\* ObjectId of an optional user document, as stored in an audit record
OptUserId(user) == IF IsSome(user) THEN Some(UserIdToString(Val(user))) ELSE None

\* mutant: the authentication event is not written
logAuthEvent_dropped(log, action, user, additionalData) == log

\* AuditLogger.logAuthEvent(action, req, user, additionalData)
logAuthEvent(log, action, user, additionalData) ==
    AuditLog(log, OptUserId(user), action, "auth", OptUserId(user),
             None, Some(additionalData))

\* AuditLogger.logUserAction(action, resource, resourceId, user, before, after)
logUserAction(log, action, resource, resourceId, user, before, after) ==
    AuditLog(log, Some(UserIdToString(user)), action, resource,
             Some(UserIdToString(resourceId)),
             sanitizeData(before), sanitizeData(after))

\* an /auth exchange: the token sent in the request body (if any) and the
\* status, message and data of the response
Response(op, presented, status, message, user, access, refresh, reset) ==
    [op |-> op, presented |-> presented, status |-> status, message |-> message,
     user |-> user, accessToken |-> access, refreshToken |-> refresh,
     resetToken |-> reset]

\* a response that carries no data
StatusOnly(op, presented, status, message) ==
    Response(op, presented, status, message, None, None, None, None)

NoResponse == StatusOnly("none", None, 0, "")

\* the response of a service call that awaited AuditLogger.log: had log
\* thrown, the service's catch block would rethrow and the controller would
\* answer `status` with the error's message
Caught(op, presented, status, response) ==
    IF LogThrows(auditUp)
    THEN StatusOnly(op, presented, status, "Audit logging failed")
    ELSE response

NewUser(email, password, role) ==
    [email |-> email, password |-> BcryptHash(password), role |-> role,
     isActive |-> TRUE, lastLogin |-> None,
     resetPasswordToken |-> None, resetPasswordExpires |-> None]

\* ------------------------------------------------------------------------
\* POST /auth/register : AuthController.register, AuthService.register
\* ------------------------------------------------------------------------
RegisterRoleInputs == {None}

Register(email, password, roleId) ==
    /\ Idle
    /\ served' = served + 1
    /\ UNCHANGED <<pureVars, pending, envVars, spent, now, ticks, req>>
    /\ IF FindUserByEmail(email) # {}
       THEN /\ resp' = StatusOnly("register", None, 400, "User with this email already exists")
            /\ UNCHANGED <<storeVars, issued>>
       ELSE IF IsSome(roleId) /\ ~IsSome(roles[Val(roleId)])
       THEN /\ resp' = StatusOnly("register", None, 400, "Invalid role ID")
            /\ UNCHANGED <<storeVars, issued>>
       ELSE IF ~IsSome(roleId) /\ FindRoleByName("user") = {}
       THEN /\ resp' = StatusOnly("register", None, 400, "Default user role not found")
            /\ UNCHANGED <<storeVars, issued>>
       ELSE
         LET role == IF IsSome(roleId) THEN Val(roleId)
                     ELSE CHOOSE r \in FindRoleByName("user") : TRUE
             id == nextUserId
             doc == NewUser(email, password, role)
             savedUser == [_id |-> id, email |-> email, isActive |-> TRUE,
                           role |-> Some([_id |-> role,
                                          name |-> Val(roles[role]).name,
                                          permissions |-> Some(Val(roles[role]).permissions)])]
             accessToken == Val(generateAccessToken(savedUser))
             refreshToken == generateRefreshToken(savedUser)
         IN /\ nextUserId <= MaxUsers
            /\ users' = [users EXCEPT ![id] = Some(doc)]
            /\ nextUserId' = nextUserId + 1
            /\ audit' = logUserAction(audit, "CREATE_USER", "users", id, id, None,
                                     Some([EmptyObj EXCEPT !.email = Some(email)]))
            /\ issued' = issued \cup {accessToken, refreshToken}
            /\ resp' = Caught("register", None, 400,
                           Response("register", None, 201,
                           "User registered successfully", Some(id),
                           Some(accessToken), Some(refreshToken), None))
            /\ UNCHANGED <<roles, nextRoleId>>

\* ------------------------------------------------------------------------
\* POST /auth/login : AuthController.login, AuthService.login
\* ------------------------------------------------------------------------
Login(email, password) ==
    /\ Idle
    /\ served' = served + 1
    /\ UNCHANGED <<pureVars, pending, envVars, spent, now, ticks, req, roles, nextUserId, nextRoleId>>
    /\ IF FindUserByEmail(email) = {}
       THEN /\ audit' = logAuthEvent(audit, "FAILED_LOGIN", None,
                                    [EmptyObj EXCEPT !.email = Some(email)])
            /\ resp' = Caught("login", None, 401,
                           StatusOnly("login", None, 401, "Invalid credentials"))
            /\ UNCHANGED <<users, issued>>
       ELSE
         LET id == CHOOSE u \in FindUserByEmail(email) : TRUE
             doc == Val(users[id])
             user == Populate(id)
         IN
         IF ~doc.isActive
         THEN /\ audit' = logAuthEvent(audit, "FAILED_LOGIN", Some(id),
                                      [EmptyObj EXCEPT
                                         !.reason = Some("Account deactivated")])
              /\ resp' = Caught("login", None, 401,
                             StatusOnly("login", None, 401,
                             "Account is deactivated"))
              /\ UNCHANGED <<users, issued>>
         ELSE IF ~BcryptCompare(password, doc.password)
         THEN /\ audit' = logAuthEvent(audit, "FAILED_LOGIN", Some(id),
                                      [EmptyObj EXCEPT !.email = Some(email)])
              /\ resp' = Caught("login", None, 401,
                             StatusOnly("login", None, 401, "Invalid credentials"))
              /\ UNCHANGED <<users, issued>>
         ELSE IF ~IsSome(generateAccessToken(user))
         THEN \* user.updateLastLogin() is saved, then generateAccessToken throws
              /\ users' = [users EXCEPT ![id] = Some([doc EXCEPT !.lastLogin = Some(now)])]
              /\ resp' = StatusOnly("login", None, 401, "TypeError")
              /\ UNCHANGED <<audit, issued>>
         ELSE
           LET accessToken == Val(generateAccessToken(user))
               refreshToken == generateRefreshToken(user)
           IN /\ users' = [users EXCEPT ![id] = Some([doc EXCEPT !.lastLogin = Some(now)])]
              /\ audit' = logAuthEvent(audit, "LOGIN", Some(id), EmptyObj)
              /\ issued' = issued \cup {accessToken, refreshToken}
              /\ resp' = Caught("login", None, 401,
                             Response("login", None, 200, "Login successful",
                             Some(id), Some(accessToken), Some(refreshToken), None))

\* mutant: the refresh only requires that the user document exists
StillActive_existsOnly(idString) ==
    FindUserByIdString(idString) # {}

\* const user = await User.findById(decoded.userId); !(!user || !user.isActive)
StillActive(idString) ==
    /\ FindUserByIdString(idString) # {}
    /\ \A u \in FindUserByIdString(idString) : Val(users[u]).isActive

\* ------------------------------------------------------------------------
\* POST /auth/refresh : AuthController.refreshToken, AuthService.refreshToken
\* ------------------------------------------------------------------------
RefreshToken(token) ==
    /\ Idle
    /\ served' = served + 1
    /\ UNCHANGED <<pureVars, pending, envVars, spent, now, ticks, req, storeVars>>
    /\ LET decoded == verifyRefreshToken(token) IN
       IF ~IsSome(decoded)
       THEN /\ resp' = StatusOnly("refresh", Some(token), 401, "Invalid or expired refresh token")
            /\ UNCHANGED issued
       ELSE IF ~StillActive(Val(decoded).userId)
       THEN /\ resp' = StatusOnly("refresh", Some(token), 401, "User not found or inactive")
            /\ UNCHANGED issued
       ELSE
         LET id == CHOOSE u \in FindUserByIdString(Val(decoded).userId) : TRUE
             user == Populate(id)
         IN
         IF ~IsSome(generateAccessToken(user))
         THEN /\ resp' = StatusOnly("refresh", Some(token), 401, "TypeError")
              /\ UNCHANGED issued
         ELSE
           LET newAccessToken == Val(generateAccessToken(user))
               newRefreshToken == generateRefreshToken(user)
           IN /\ issued' = issued \cup {newAccessToken, newRefreshToken}
              /\ resp' = Response("refresh", Some(token), 200,
                                  "Token refreshed successfully", None,
                                  Some(newAccessToken), Some(newRefreshToken), None)

\* ------------------------------------------------------------------------
\* POST /auth/forgot-password : AuthService.forgotPassword
\* ------------------------------------------------------------------------
ForgotMessage == "If an account with this email exists, a password reset link has been sent"

ForgotPassword(email) ==
    /\ Idle
    /\ served' = served + 1
    /\ UNCHANGED <<pureVars, pending, envVars, spent, now, ticks, req, roles, nextUserId, nextRoleId>>
    /\ IF FindUserByEmail(email) = {}
       THEN /\ resp' = StatusOnly("forgot-password", None, 200, ForgotMessage)
            /\ UNCHANGED <<users, audit, issued>>
       ELSE
         LET id == CHOOSE u \in FindUserByEmail(email) : TRUE
             doc == Val(users[id])
             resetToken == generatePasswordResetToken([_id |-> id])
         IN /\ users' = [users EXCEPT ![id] =
                            Some([doc EXCEPT !.resetPasswordToken = Some(resetToken),
                                             !.resetPasswordExpires =
                                                 Some(now + RESET_FIELD_EXPIRES_IN)])]
            /\ audit' = logUserAction(audit, "RESET_PASSWORD", "auth", id, id, None,
                                     Some([EmptyObj EXCEPT !.email = Some(email)]))
            /\ issued' = issued \cup {resetToken}
            /\ resp' = Caught("forgot-password", None, 400,
                           Response("forgot-password", None, 200, ForgotMessage,
                           None, None, None, Some(resetToken)))

\* ------------------------------------------------------------------------
\* POST /auth/reset-password : AuthService.resetPassword
\* ------------------------------------------------------------------------
\* User.findOne({ _id, resetPasswordToken: token, resetPasswordExpires: { $gt: now } })
FindUserForReset(decoded, token) ==
    {u \in FindUserByIdString(decoded.userId) :
        /\ Val(users[u]).resetPasswordToken = Some(token)
        /\ IsSome(Val(users[u]).resetPasswordExpires)
        /\ Val(Val(users[u]).resetPasswordExpires) > now}

ResetPassword(token, newPassword) ==
    /\ Idle
    /\ served' = served + 1
    /\ UNCHANGED <<pureVars, pending, envVars, now, ticks, req, roles, nextUserId, nextRoleId, issued>>
    /\ LET decoded == verifyPasswordResetToken(token) IN
       IF ~IsSome(decoded)
       THEN /\ resp' = StatusOnly("reset-password", Some(token), 400,
                               "Invalid or expired password reset token")
            /\ UNCHANGED <<users, audit, spent>>
       ELSE IF FindUserForReset(Val(decoded), token) = {}
       THEN /\ resp' = StatusOnly("reset-password", Some(token), 400, "Invalid or expired reset token")
            /\ UNCHANGED <<users, audit, spent>>
       ELSE
         LET id == CHOOSE u \in FindUserForReset(Val(decoded), token) : TRUE
             doc == Val(users[id])
         IN /\ users' = [users EXCEPT ![id] =
                            Some([doc EXCEPT !.password = BcryptHash(newPassword),
                                             !.resetPasswordToken = None,
                                             !.resetPasswordExpires = None])]
            /\ audit' = logUserAction(audit, "CHANGE_PASSWORD", "auth", id, id, None,
                                     Some([EmptyObj EXCEPT
                                             !.reason = Some("Password reset")]))
            /\ spent' = spent \cup {token}
            /\ resp' = Caught("reset-password", Some(token), 400,
                           StatusOnly("reset-password", Some(token), 200,
                           "Password has been reset successfully"))

\* ------------------------------------------------------------------------
\* POST /auth/logout and POST /auth/change-password, both behind
\* authenticateToken
\* ------------------------------------------------------------------------
\* mutant: authenticateToken only requires that the user document exists
AuthStatus_existsOnly(token) ==
    LET decoded == verifyAccessToken(token) IN
    IF ~IsSome(decoded) THEN 403
    ELSE IF FindUserByIdString(Val(decoded).userId) = {} THEN 401
    ELSE 0

\* the status authenticateToken answers to a bearer string, 0 when it calls
\* next()
AuthStatus(token) ==
    LET decoded == verifyAccessToken(token) IN
    IF ~IsSome(decoded) THEN 403
    ELSE IF FindUserByIdString(Val(decoded).userId) = {} THEN 401
    ELSE IF \E u \in FindUserByIdString(Val(decoded).userId) : ~Val(users[u]).isActive
    THEN 401
    ELSE 0

\* AuthController.logout, AuthService.logout: req.user carries userId and no
\* _id, so the LOGOUT record names no user
Logout(token) ==
    /\ Idle
    /\ served' = served + 1
    /\ UNCHANGED <<pureVars, pending, envVars, spent, now, ticks, req, users, roles,
                   nextUserId, nextRoleId, issued>>
    /\ IF AuthStatus(token) # 0
       THEN /\ resp' = StatusOnly("logout", Some(token), AuthStatus(token), "")
            /\ UNCHANGED audit
       ELSE /\ audit' = logAuthEvent(audit, "LOGOUT", None, EmptyObj)
            /\ resp' = Caught("logout", Some(token), 400,
                           StatusOnly("logout", Some(token), 200,
                           "Logged out successfully"))

\* AuthController.changePassword, AuthService.changePassword
ChangePassword(token, currentPassword, newPassword) ==
    /\ Idle
    /\ served' = served + 1
    /\ UNCHANGED <<pureVars, pending, envVars, spent, now, ticks, req, roles,
                   nextUserId, nextRoleId, issued>>
    /\ IF AuthStatus(token) # 0
       THEN /\ resp' = StatusOnly("change-password", Some(token), AuthStatus(token), "")
            /\ UNCHANGED <<users, audit>>
       ELSE
         LET id == CHOOSE u \in FindUserByIdString(Val(verifyAccessToken(token)).userId) : TRUE
             doc == Val(users[id])
         IN IF ~BcryptCompare(currentPassword, doc.password)
            THEN /\ resp' = StatusOnly("change-password", Some(token), 400,
                                    "Current password is incorrect")
                 /\ UNCHANGED <<users, audit>>
            ELSE /\ users' = [users EXCEPT ![id] =
                                 Some([doc EXCEPT !.password = BcryptHash(newPassword)])]
                 /\ audit' = logUserAction(audit, "CHANGE_PASSWORD", "auth", id, id, None,
                                          Some([EmptyObj EXCEPT
                                                  !.reason = Some("Password change")]))
                 /\ resp' = Caught("change-password", Some(token), 400,
                                StatusOnly("change-password", Some(token), 200,
                                "Password changed successfully"))

\* ------------------------------------------------------------------------
\* The clock
\* ------------------------------------------------------------------------
TickDeltas == {JWT_ACCESS_EXPIRES_IN, RESET_TOKEN_EXPIRES_IN, JWT_REFRESH_EXPIRES_IN}

Tick(d) ==
    /\ ~IsSome(req)
    /\ UNCHANGED served
    /\ ticks < MaxTicks
    /\ now' = now + d
    /\ ticks' = ticks + 1
    /\ resp' = NoResponse
    /\ UNCHANGED <<pureVars, pending, envVars, spent, storeVars, issued, req>>

\* the audit log collection stops accepting writes: from now on
\* auditLog.save() rejects
AuditOutage ==
    /\ auditUp
    /\ ~IsSome(req)
    /\ auditUp' = FALSE
    /\ resp' = NoResponse
    /\ UNCHANGED <<pureVars, pending, spent, storeVars, now, ticks, issued, req, served>>

\* ------------------------------------------------------------------------
\* Protected routes: authenticateToken -> RBAC.checkPermission ->
\* AuditLogger.auditAction -> controller, then the 'finish' callback
\* ------------------------------------------------------------------------
Routes == {"PUT /roles/:id", "DELETE /roles/:id", "PUT /users/:id", "DELETE /users/:id"}

RoleRoutes == {"PUT /roles/:id", "DELETE /roles/:id"}

\* the permission each route hands to RBAC.checkPermission
RequiredPermission(route) ==
    CASE route = "PUT /roles/:id"    -> Perm(ROLE, UPDATE)
      [] route = "DELETE /roles/:id" -> Perm(ROLE, DELETE)
      [] route = "PUT /users/:id"    -> Perm(USER, UPDATE)
      [] route = "DELETE /users/:id" -> Perm(USER, DELETE)
      [] route = "POST /users"       -> Perm(USER, CREATE)

\* the action and resource each route hands to AuditLogger.auditAction
AuditActionOf(route) ==
    CASE route = "PUT /roles/:id"    -> "UPDATE_ROLE"
      [] route = "DELETE /roles/:id" -> "DELETE_ROLE"
      [] route = "PUT /users/:id"    -> "UPDATE_USER"
      [] route = "DELETE /users/:id" -> "DELETE_USER"
      [] route = "POST /users"       -> "CREATE_USER"

AuditResourceOf(route) == IF route \in RoleRoutes THEN "roles" ELSE "users"

Body(name, permissions, roleId, isActive) ==
    [name |-> name, permissions |-> permissions, roleId |-> roleId, isActive |-> isActive,
     email |-> None, password |-> None]

EmptyBody == Body(None, None, None, None)

\* request bodies accepted by updateRoleSchema
RoleUpdateBodies ==
    {Body(Some("staff"), None, None, None),
     Body(None, Some(<<Perm(USER, READ)>>), None, None)}

\* request bodies accepted by updateUserSchema
UserUpdateBodies ==
    {Body(None, None, None, Some(FALSE)),
     Body(None, None, Some(4), None)}

\* request bodies accepted by createUserSchema
CreateUserBodies ==
    {[Body(None, None, Some(role), None) EXCEPT !.email = Some(e),
                                                !.password = Some("secret1")] :
        e \in Emails, role \in {4}}

BodiesOf(route) ==
    CASE route = "PUT /roles/:id" -> RoleUpdateBodies
      [] route = "PUT /users/:id" -> UserUpdateBodies
      [] route = "POST /users"    -> CreateUserBodies
      [] OTHER -> {EmptyBody}

\* values of the :id path parameter
TargetRoleIds == {1, 4}

\* POST /users has no :id parameter
ParamsOf(route) ==
    IF route \in RoleRoutes THEN TargetRoleIds
    ELSE IF route = "POST /users" THEN {0}
    ELSE UserIds

\* req.params.id of a request for /users/profile that a '/:id' route took
ProfileParam == 0

\* PUT routes of the users router in the order they are registered
UserPutRoutes == <<"PUT /users/:id", "PUT /users/profile">>

\* Express hands a request to the first registered route whose pattern
\* matches its path; '/:id' matches every single path segment
Dispatch(path) ==
    LET matching == {i \in 1..Len(UserPutRoutes) :
                        UserPutRoutes[i] = "PUT /users/:id" \/ UserPutRoutes[i] = path}
    IN UserPutRoutes[CHOOSE i \in matching : \A j \in matching : i <= j]

ParamToString(route, id) ==
    IF route \in RoleRoutes THEN RoleIdToString(id)
    ELSE IF id = ProfileParam THEN <<"p", "r", "o", "f", "i", "l", "e">>
    ELSE UserIdToString(id)

\* bearer strings a client can present
Presentable == {None} \cup {Some(t) : t \in issued}

NewRequest(route, token, id, body) ==
    [route |-> route, token |-> token, id |-> id, body |-> body,
     stage |-> "authenticateToken", user |-> None,
     status |-> 0, responseData |-> None,
     sentBy |-> "", handlerRan |-> FALSE, auditInstalled |-> FALSE]

Reject(r, status, by) ==
    Some([r EXCEPT !.status = status, !.sentBy = by, !.stage = "done"])

\* mutant: req.user carries the permissions embedded in the token
ReqUser_fromToken(user, decoded) ==
    Some([userId |-> Some(UserIdToString(user._id)),
          role |-> IF IsSome(user.role)
                   THEN Some([Val(user.role) EXCEPT !.permissions = decoded.permissions])
                   ELSE None])

\* req.user = { userId: user._id, email, role: user.role, ... } built from
\* the user document read in this request
ReqUser(user, decoded) ==
    Some([userId |-> Some(UserIdToString(user._id)), role |-> user.role])

\* a request enters a protected route: authenticateToken(req, res, next)
AuthenticateToken(route, token, id, body) ==
    /\ Idle
    /\ served' = served + 1
    /\ resp' = NoResponse
    /\ UNCHANGED <<pureVars, pending, envVars, spent, storeVars, now, ticks, issued>>
    /\ LET r == NewRequest(route, token, id, body) IN
       IF ~IsSome(r.token)
       THEN req' = Reject(r, 401, "authenticateToken")
       ELSE IF AuthStatus(Val(r.token)) # 0
       THEN req' = Reject(r, AuthStatus(Val(r.token)), "authenticateToken")
       ELSE
         LET decoded == verifyAccessToken(Val(r.token))
             u == CHOOSE u \in FindUserByIdString(Val(decoded).userId) : TRUE
         IN req' = Some([r EXCEPT !.user = ReqUser(Populate(u), Val(decoded)),
                                  !.stage = "checkPermission"])

\* mutant: the gate calls next() also after it has sent 403
GateNext_always(r, admitted) ==
    Some([r EXCEPT !.stage = "handler",
                   !.status = IF admitted THEN 0 ELSE 403,
                   !.sentBy = IF admitted THEN "" ELSE "checkPermission"])

\* RBAC.checkPermission: next() when admitted, 403 otherwise
GateNext(r, admitted) ==
    IF admitted
    THEN Some([r EXCEPT !.stage = "handler"])
    ELSE Reject(r, 403, "checkPermission")

\* RBAC.checkPermission(requiredPermission)(req, res, next)
CheckPermission ==
    /\ Stage("checkPermission")
    /\ UNCHANGED served
    /\ UNCHANGED <<pureVars, pending, envVars, spent, storeVars, now, ticks, issued, resp>>
    /\ LET r == Val(req) IN
       IF ~IsSome(r.user)
       THEN req' = Reject(r, 401, "checkPermission")
       ELSE req' = GateNext(r, hasPermission(r.user, Some(RequiredPermission(r.route)))
                                  = Return(TRUE))

\* the captured argument of res.send: JSON text that parses to
\* { success, message, data }, with data absent in an error response
Json(data) == [parses |-> TRUE, _id |-> None, data |-> data]

\* JSON of a role document
RoleJson(id, role) ==
    Obj(Some(RoleIdToString(id)), None, None, Some(role.name),
        Some(role.permissions), None, None)

\* JSON of a user document read without +password
UserJson(id, doc) ==
    Obj(Some(UserIdToString(id)), Some(doc.email), None, None, None, None,
        doc.resetPasswordToken)

\* req.body as an object
BodyObj(body) ==
    Obj(None, body.email, None, body.name, body.permissions, body.password, None)

\* the controller has sent `status` with `data` (res.json -> res.send)
Responded(r, status, data) ==
    Some([r EXCEPT !.status = status, !.responseData = Some(Json(data)),
                   !.sentBy = "handler", !.stage = "finish",
                   !.handlerRan = TRUE, !.auditInstalled = TRUE])

\* outcome of a RoleService call: the status the controller maps it to and
\* the roles collection it leaves
RoleResult(status, newRoles) == [status |-> status, roles |-> newRoles]

\* mutant: no role is treated as the protected one
IsSuperAdmin_never(role) == FALSE

\* currentRole.name === 'super-admin'
IsSuperAdmin(role) == role.name = "super-admin"

\* RoleService.createRole(roleData) storing the new document under `id`
createRole(id, roleData) ==
    IF FindRoleByName(Val(roleData.name)) # {}
    THEN RoleResult(409, roles)
    ELSE RoleResult(201, [roles EXCEPT ![id] =
                            Some([name |-> Val(roleData.name),
                                  permissions |-> Val(roleData.permissions)])])

\* RoleService.updateRole(roleId, updateData)
updateRole(roleId, updateData) ==
    IF ~IsSome(roles[roleId])
    THEN RoleResult(404, roles)
    ELSE
      LET currentRole == Val(roles[roleId]) IN
      IF /\ IsSome(updateData.name)
         /\ Val(updateData.name) # currentRole.name
         /\ FindRoleByName(Val(updateData.name)) # {}
      THEN RoleResult(409, roles)
      ELSE IF /\ IsSuperAdmin(currentRole)
              /\ \/ IsSome(updateData.name) /\ Val(updateData.name) # "super-admin"
                 \/ /\ IsSome(updateData.permissions)
                    /\ ~Includes(Val(updateData.permissions), STAR_STAR)
      THEN RoleResult(403, roles)
      ELSE RoleResult(200,
             [roles EXCEPT ![roleId] =
                Some([name |-> IF IsSome(updateData.name)
                               THEN Val(updateData.name)
                               ELSE currentRole.name,
                      permissions |-> IF IsSome(updateData.permissions)
                                      THEN Val(updateData.permissions)
                                      ELSE currentRole.permissions])])

\* mutant: the assignment to users is tested before the protected name
deleteRole_usersFirst(roleId) ==
    IF ~IsSome(roles[roleId])
    THEN RoleResult(404, roles)
    ELSE IF \E u \in UserIds : IsSome(users[u]) /\ Val(users[u]).role = roleId
    THEN RoleResult(409, roles)
    ELSE IF IsSuperAdmin(Val(roles[roleId]))
    THEN RoleResult(403, roles)
    ELSE RoleResult(200, [roles EXCEPT ![roleId] = None])

\* mutant: a role is deleted without counting the users assigned to it
deleteRole_unchecked(roleId) ==
    IF ~IsSome(roles[roleId])
    THEN RoleResult(404, roles)
    ELSE IF IsSuperAdmin(Val(roles[roleId]))
    THEN RoleResult(403, roles)
    ELSE RoleResult(200, [roles EXCEPT ![roleId] = None])

\* RoleService.deleteRole(roleId)
deleteRole(roleId) ==
    IF ~IsSome(roles[roleId])
    THEN RoleResult(404, roles)
    ELSE IF IsSuperAdmin(Val(roles[roleId]))
    THEN RoleResult(403, roles)
    ELSE IF \E u \in UserIds : IsSome(users[u]) /\ Val(users[u]).role = roleId
    THEN RoleResult(409, roles)
    ELSE RoleResult(200, [roles EXCEPT ![roleId] = None])

\* RoleController.updateRole: data is the updated role
UpdateRoleHandler(r) ==
    LET result == updateRole(r.id, r.body) IN
    /\ roles' = result.roles
    /\ req' = Responded(r, result.status,
                        IF result.status = 200
                        THEN Some(RoleJson(r.id, Val(result.roles[r.id])))
                        ELSE None)
    /\ UNCHANGED <<users, audit, nextUserId, nextRoleId>>

\* RoleController.deleteRole: data is the deleted role
DeleteRoleHandler(r) ==
    LET result == deleteRole(r.id) IN
    /\ roles' = result.roles
    /\ req' = Responded(r, result.status,
                        IF result.status = 200
                        THEN Some(RoleJson(r.id, Val(roles[r.id])))
                        ELSE None)
    /\ UNCHANGED <<users, audit, nextUserId, nextRoleId>>

\* UserController.updateUser, UserService.updateUser
UpdateUserHandler(r) ==
    IF r.id \notin UserIds
    THEN \* User.findById rejects with a CastError
         /\ req' = Responded(r, 500, None)
         /\ UNCHANGED storeVars
    ELSE IF ~IsSome(users[r.id])
    THEN /\ req' = Responded(r, 400, None)
         /\ UNCHANGED storeVars
    ELSE IF IsSome(r.body.roleId) /\ ~IsSome(roles[Val(r.body.roleId)])
    THEN /\ req' = Responded(r, 400, None)
         /\ UNCHANGED storeVars
    ELSE
      LET doc == Val(users[r.id]) IN
      /\ users' = [users EXCEPT ![r.id] =
                      Some([doc EXCEPT
                              !.role = IF IsSome(r.body.roleId)
                                       THEN Val(r.body.roleId) ELSE @,
                              !.isActive = IF IsSome(r.body.isActive)
                                           THEN Val(r.body.isActive) ELSE @])]
      /\ req' = Responded(r, 200, Some(UserJson(r.id, Val(users'[r.id]))))
      /\ UNCHANGED <<roles, audit, nextUserId, nextRoleId>>

\* UserController.deleteUser, UserService.deleteUser
DeleteUserHandler(r) ==
    IF ~IsSome(users[r.id])
    THEN /\ req' = Responded(r, 400, None)
         /\ UNCHANGED storeVars
    ELSE IF Val(Val(r.user).userId) = UserIdToString(r.id)
    THEN /\ req' = Responded(r, 400, None)
         /\ UNCHANGED storeVars
    ELSE /\ users' = [users EXCEPT ![r.id] = None]
         /\ req' = Responded(r, 200, Some(UserJson(r.id, Val(users[r.id]))))
         /\ UNCHANGED <<roles, audit, nextUserId, nextRoleId>>

\* UserController.createUser, UserService.createUser: data is the saved
\* document, which still holds the password hash
CreateUserHandler(r) ==
    IF FindUserByEmail(Val(r.body.email)) # {}
    THEN /\ req' = Responded(r, 400, None)
         /\ UNCHANGED storeVars
    ELSE IF ~IsSome(roles[Val(r.body.roleId)])
    THEN /\ req' = Responded(r, 400, None)
         /\ UNCHANGED storeVars
    ELSE
      LET id == nextUserId
          doc == NewUser(Val(r.body.email), Val(r.body.password), Val(r.body.roleId))
      IN /\ nextUserId <= MaxUsers
         /\ users' = [users EXCEPT ![id] = Some(doc)]
         /\ nextUserId' = nextUserId + 1
         /\ req' = Responded(r, 201,
                             Some([UserJson(id, doc) EXCEPT !.password = Some(doc.password)]))
         /\ UNCHANGED <<roles, audit, nextRoleId>>

\* AuditLogger.extractResourceId(req, options): req.params.id || null
extractResourceId(r) ==
    IF r.route = "POST /users" THEN None ELSE Some(ParamToString(r.route, r.id))

\* AuditLogger.auditAction(...) installs its hooks and calls next():
\* the controller runs and sends its response
Handler ==
    /\ Stage("handler")
    /\ UNCHANGED served
    /\ UNCHANGED <<pureVars, pending, envVars, spent, now, ticks, issued, resp>>
    /\ LET r == Val(req) IN
       CASE r.route = "PUT /roles/:id"    -> UpdateRoleHandler(r)
         [] r.route = "DELETE /roles/:id" -> DeleteRoleHandler(r)
         [] r.route = "PUT /users/:id"    -> UpdateUserHandler(r)
         [] r.route = "DELETE /users/:id" -> DeleteUserHandler(r)
         [] r.route = "POST /users"       -> CreateUserHandler(r)

\* options.captureBefore / options.captureAfter of each route
CaptureBefore(route) == route \in RoleRoutes

CaptureAfter(route) == route \in {"PUT /roles/:id", "PUT /users/:id", "POST /users"}

\* the actor resolution has not run yet
NotResolved == [kind |-> "pending", value |-> None]

\* mutant: every status below 500 counts as a success
IsSuccessStatus_below500(status) == status >= 200 /\ status < 500

\* res.statusCode >= 200 && res.statusCode < 300
IsSuccessStatus(status) == status >= 200 /\ status < 300

\* parsed.data._id, else parsed._id, of JSON.parse(responseData); None when
\* there is no response data, it does not parse or it carries no _id
IdInResponse(responseData) ==
    IF ~IsSome(responseData) \/ ~Val(responseData).parses THEN None
    ELSE LET parsed == Val(responseData) IN
         IF IsSome(parsed.data) /\ IsSome(Val(parsed.data)._id)
         THEN Val(parsed.data)._id
         ELSE parsed._id

\* mutant: the actor is taken from the response before req.user is looked at
ResolveActor_responseFirst(user, action, responseData) ==
    IF IsSome(IdInResponse(responseData)) THEN IdInResponse(responseData)
    ELSE IF IsSome(user) THEN Val(user).userId
    ELSE None

\* the userId of logData in the 'finish' callback: req.user.userId, else the
\* id found in the response (the CREATE_USER branch and the branch of the
\* other actions read the same two places), else null
ResolveActor(user, action, responseData) ==
    LET userId == IF IsSome(user) THEN Val(user).userId ELSE None IN
    IF IsSome(userId) THEN userId
    ELSE IF action = "CREATE_USER" /\ IsSome(IdInResponse(responseData))
    THEN IdInResponse(responseData)
    ELSE IF action # "CREATE_USER" /\ IsSome(IdInResponse(responseData))
    THEN IdInResponse(responseData)
    ELSE None

\* AuditLogger.extractAfterData(responseData, options)
extractAfterData(responseData, captureAfter) ==
    IF ~IsSome(responseData) \/ ~captureAfter THEN None
    ELSE IF ~Val(responseData).parses THEN None
    ELSE LET parsed == Val(responseData) IN
         IF IsSome(parsed.data)
         THEN Some([Val(parsed.data) EXCEPT !.password = None])
         ELSE Some([EmptyObj EXCEPT !._id = parsed._id])

\* ------------------------------------------------------------------------
\* Inputs of the actor resolution
\* ------------------------------------------------------------------------
\* req.user: absent, without a userId, or with one
ActorUsers ==
    {None, Some([userId |-> None, role |-> None])}
    \cup {Some([userId |-> Some(UserIdToString(u)), role |-> None]) : u \in 1..MaxActors}

ActorActions == {"CREATE_USER", "UPDATE_USER", "DELETE_ROLE"}

\* ids a response can carry
ResponseIds == {None, Some(UserIdToString(MaxActors + 1))}

\* what res.send captured: nothing, text that is no JSON, or JSON with or
\* without data and _id
ActorResponses ==
    {None, Some([parses |-> FALSE, _id |-> None, data |-> None])}
    \cup {Some([parses |-> TRUE, _id |-> i, data |-> None]) : i \in ResponseIds}
    \cup {Some([parses |-> TRUE, _id |-> i, data |-> Some([EmptyObj EXCEPT !._id = j])]) :
             i \in ResponseIds, j \in ResponseIds}

ActorInit ==
    /\ actorUser \in ActorUsers
    /\ actorAction \in ActorActions
    /\ actorResponse \in ActorResponses
    /\ actorResult = NotResolved

\* the 'finish' callback computes the userId of its logData
CallResolveActor ==
    /\ actorResult = NotResolved
    /\ actorResult' = [kind |-> "resolved",
                       value |-> ResolveActor(actorUser, actorAction, actorResponse)]
    /\ UNCHANGED <<actorUser, actorAction, actorResponse>>

\* res.on('finish') registered by AuditLogger.auditAction
Finish ==
    /\ Stage("finish")
    /\ UNCHANGED served
    /\ UNCHANGED <<pureVars, pending, envVars, spent, users, roles, nextUserId, nextRoleId,
                   now, ticks, issued, resp>>
    /\ LET r == Val(req) IN
       /\ req' = None
       /\ IF IsSuccessStatus(r.status)
          THEN audit' = AuditLog(audit,
                                 ResolveActor(r.user, AuditActionOf(r.route),
                                              r.responseData),
                                 AuditActionOf(r.route), AuditResourceOf(r.route),
                                 extractResourceId(r),
                                 IF CaptureBefore(r.route)
                                 THEN sanitizeData(Some(BodyObj(r.body)))
                                 ELSE None,
                                 extractAfterData(r.responseData,
                                                  CaptureAfter(r.route)))
          ELSE audit' = audit

\* a request rejected before the audit hooks were installed is over
Complete ==
    /\ Stage("done")
    /\ UNCHANGED served
    /\ req' = None
    /\ UNCHANGED <<pureVars, pending, envVars, spent, storeVars, now, ticks, issued, resp>>

\* ------------------------------------------------------------------------
\* Specifications
\* ------------------------------------------------------------------------
\* the database after scripts/seed.js
SysInit ==
    /\ roles = [r \in RoleIds |->
                  IF r <= NumSeedRoles THEN Some(DefaultRoles[r]) ELSE None]
    /\ nextRoleId = NumSeedRoles + 1
    /\ auditUp = TRUE
    /\ users = [u \in UserIds |->
                  IF u = 1 THEN Some(NewUser("admin@gmail.com", "Admin123", 1)) ELSE None]
    /\ audit = <<>>
    /\ nextUserId = 2
    /\ now = 0
    /\ ticks = 0
    /\ issued = {}
    /\ spent = {}
    /\ req = None
    /\ served = 0
    /\ pending = [w \in Workers |-> None]
    /\ resp = NoResponse

\* no call of the actor resolution has been made
ActorIdle ==
    /\ actorUser = None
    /\ actorAction = "CREATE_USER"
    /\ actorResponse = None
    /\ actorResult = NotResolved

Init == SysInit /\ EvalIdle /\ ActorIdle

Next ==
    \/ \E e \in Emails, p \in {"secret1"}, r \in RegisterRoleInputs : Register(e, p, r)
    \/ \E e \in Emails, p \in Passwords : Login(e, p)
    \/ \E t \in issued \cup {ForgedToken} : RefreshToken(t)
    \/ \E e \in Emails : ForgotPassword(e)
    \/ \E t \in issued \cup {ForgedToken}, p \in {"secret1"} : ResetPassword(t, p)
    \/ \E d \in TickDeltas : Tick(d)
    \/ AuditOutage
    \/ \E route \in Routes, t \in Presentable :
         \E id \in ParamsOf(route), b \in BodiesOf(route) :
            AuthenticateToken(route, t, id, b)
    \/ CheckPermission
    \/ Handler
    \/ Finish
    \/ Complete

Spec == Init /\ [][Next]_vars

\* the permission evaluator applied to enumerated inputs
InitRBAC == EvalInit /\ SysInit /\ ActorIdle

NextRBAC ==
    \/ CallHasPermission /\ UNCHANGED sysVars
    \/ CallCanAccessResource /\ UNCHANGED sysVars

SpecRBAC == InitRBAC /\ [][NextRBAC]_vars



\* ------------------------------------------------------------------------
\* Role management on its own: any sequence of RoleService calls on the
\* seeded database
\* ------------------------------------------------------------------------
RoleNames == {"super-admin", "admin", "staff"}

RolePermissionInputs ==
    {<<STAR_STAR>>, <<Perm(USER, READ)>>, <<Perm(USER, READ), STAR_STAR>>}

\* bodies accepted by createRoleSchema
CreateRoleInputs ==
    {Body(Some(n), Some(p), None, None) : n \in RoleNames, p \in RolePermissionInputs}

\* bodies accepted by updateRoleSchema
UpdateRoleInputs ==
    {Body(n, p, None, None) :
       n \in {None} \cup {Some(x) : x \in RoleNames},
       p \in {None} \cup {Some(x) : x \in RolePermissionInputs}}

notRoleVars ==
    <<pureVars, pending, envVars, spent, audit, nextUserId, now, ticks, issued, req, served>>

\* the status the RoleController answers for the outcome of a service call
RoleResponse(op, status) == StatusOnly(op, None, status, "")

CallCreateRole(roleData) ==
    /\ nextRoleId \in RoleIds
    /\ LET result == createRole(nextRoleId, roleData) IN
       /\ roles' = result.roles
       /\ nextRoleId' = IF result.status = 201 THEN nextRoleId + 1 ELSE nextRoleId
       /\ resp' = RoleResponse("createRole", result.status)
    /\ UNCHANGED <<notRoleVars, users>>

CallUpdateRole(roleId, updateData) ==
    /\ roles' = updateRole(roleId, updateData).roles
    /\ resp' = RoleResponse("updateRole", updateRole(roleId, updateData).status)
    /\ UNCHANGED <<notRoleVars, users, nextRoleId>>

CallDeleteRole(roleId) ==
    /\ roles' = deleteRole(roleId).roles
    /\ resp' = RoleResponse("deleteRole", deleteRole(roleId).status)
    /\ UNCHANGED <<notRoleVars, users, nextRoleId>>

\* UserService.updateUser(userId, { roleId }): a user is assigned another
\* role that exists
CallAssignRole(u, roleId) ==
    /\ IsSome(users[u])
    /\ IsSome(roles[roleId])
    /\ users' = [users EXCEPT ![u] = Some([Val(users[u]) EXCEPT !.role = roleId])]
    /\ resp' = RoleResponse("updateUser", 200)
    /\ UNCHANGED <<notRoleVars, roles, nextRoleId>>

NextRoles ==
    \/ \E d \in CreateRoleInputs : CallCreateRole(d)
    \/ \E r \in RoleIds, d \in UpdateRoleInputs : CallUpdateRole(r, d)
    \/ \E r \in RoleIds : CallDeleteRole(r)
    \/ \E u \in UserIds, r \in RoleIds : CallAssignRole(u, r)

SpecRoles == Init /\ [][NextRoles]_vars

\* ------------------------------------------------------------------------
\* Sessions on their own: login, refresh, logout, password change and the
\* clock
\* ------------------------------------------------------------------------
NextSessions ==
    \/ \E e \in Emails, p \in Passwords : Login(e, p)
    \/ \E t \in issued \cup {ForgedToken} : RefreshToken(t)
    \/ \E t \in issued \cup {ForgedToken} : Logout(t)
    \/ \E t \in issued, c \in Passwords, n \in Passwords : ChangePassword(t, c, n)
    \/ \E d \in TickDeltas : Tick(d)

SpecSessions == Init /\ [][NextSessions]_vars

\* ------------------------------------------------------------------------
\* Service calls interleaved at their awaits: each call reads the database,
\* yields to the event loop, and writes when it is resumed
\* ------------------------------------------------------------------------
\* a service call suspended between its reads and its write
ServiceCall(op, token, password, email, user, role) ==
    [op |-> op, stage |-> "await", status |-> 0, token |-> token,
     password |-> password, email |-> email, user |-> user, role |-> role]

\* the service call returned or threw: the controller answers status
Settled(call, status) == Some([call EXCEPT !.stage = "done", !.status = status])

\* service call w is suspended in op
Awaiting(w, op) ==
    /\ IsSome(pending[w])
    /\ Val(pending[w]).op = op
    /\ Val(pending[w]).stage = "await"

\* AuthService.resetPassword up to the resolution of User.findOne
ResetPasswordFind(w, token, newPassword) ==
    /\ pending[w] = None
    /\ UNCHANGED <<pureVars, envVars, storeVars, now, ticks, issued, spent, req, served, resp>>
    /\ LET decoded == verifyPasswordResetToken(token)
           call == ServiceCall("resetPassword", Some(token), newPassword, "", 0, 0)
       IN pending' = [pending EXCEPT ![w] =
             IF ~IsSome(decoded) \/ FindUserForReset(Val(decoded), token) = {}
             THEN Settled(call, 400)
             ELSE Some([call EXCEPT !.user =
                          CHOOSE u \in FindUserForReset(Val(decoded), token) : TRUE])]

\* AuthService.resetPassword from user.save() on: the document loaded by
\* findOne is written back by its _id
ResetPasswordSave(w) ==
    /\ Awaiting(w, "resetPassword")
    /\ UNCHANGED <<pureVars, envVars, roles, nextUserId, nextRoleId, now, ticks, issued,
                   req, served, resp>>
    /\ LET call == Val(pending[w])
           id == call.user
       IN IF ~IsSome(users[id])
          THEN /\ pending' = [pending EXCEPT ![w] = Settled(call, 400)]
               /\ UNCHANGED <<users, audit, spent>>
          ELSE /\ users' = [users EXCEPT ![id] =
                              Some([Val(users[id]) EXCEPT
                                      !.password = BcryptHash(call.password),
                                      !.resetPasswordToken = None,
                                      !.resetPasswordExpires = None])]
               /\ audit' = logUserAction(audit, "CHANGE_PASSWORD", "auth", id, id, None,
                                        Some([EmptyObj EXCEPT
                                                !.reason = Some("Password reset")]))
               /\ spent' = spent \cup {Val(call.token)}
               /\ pending' = [pending EXCEPT ![w] = Settled(call, 200)]

NextResetRace ==
    \/ \E e \in Emails, p \in {"secret1"}, r \in RegisterRoleInputs : Register(e, p, r)
    \/ \E e \in Emails : ForgotPassword(e)
    \/ \E w \in Workers, t \in issued, p \in Passwords : ResetPasswordFind(w, t, p)
    \/ \E w \in Workers : ResetPasswordSave(w)
    \/ \E d \in TickDeltas : Tick(d)

SpecResetRace == Init /\ [][NextResetRace]_vars

\* UserService.createUser up to the resolution of Role.findById
CreateUserCheck(w, email, roleId) ==
    /\ pending[w] = None
    /\ UNCHANGED <<pureVars, envVars, storeVars, now, ticks, issued, spent, req, served, resp>>
    /\ LET call == ServiceCall("createUser", None, "secret1", email, 0, roleId)
       IN pending' = [pending EXCEPT ![w] =
             IF FindUserByEmail(email) # {} \/ ~IsSome(roles[roleId])
             THEN Settled(call, 400)
             ELSE Some(call)]

\* UserService.createUser from user.save() on; the unique index on email
\* rejects a second document with the same email
CreateUserSave(w) ==
    /\ Awaiting(w, "createUser")
    /\ UNCHANGED <<pureVars, envVars, roles, audit, nextRoleId, now, ticks, issued, spent,
                   req, served, resp>>
    /\ LET call == Val(pending[w]) IN
       IF FindUserByEmail(call.email) # {}
       THEN /\ pending' = [pending EXCEPT ![w] = Settled(call, 500)]
            /\ UNCHANGED <<users, nextUserId>>
       ELSE /\ nextUserId <= MaxUsers
            /\ users' = [users EXCEPT ![nextUserId] =
                           Some(NewUser(call.email, call.password, call.role))]
            /\ nextUserId' = nextUserId + 1
            /\ pending' = [pending EXCEPT ![w] = Settled([call EXCEPT !.user = nextUserId], 201)]

\* UserService.updateUser({ roleId }) up to the resolution of Role.findById
UpdateUserCheck(w, userId, roleId) ==
    /\ pending[w] = None
    /\ UNCHANGED <<pureVars, envVars, storeVars, now, ticks, issued, spent, req, served, resp>>
    /\ LET call == ServiceCall("updateUser", None, "", "", userId, roleId)
       IN pending' = [pending EXCEPT ![w] =
             IF ~IsSome(users[userId]) \/ ~IsSome(roles[roleId])
             THEN Settled(call, 400)
             ELSE Some(call)]

\* UserService.updateUser from User.findByIdAndUpdate on
UpdateUserWrite(w) ==
    /\ Awaiting(w, "updateUser")
    /\ UNCHANGED <<pureVars, envVars, roles, audit, nextUserId, nextRoleId, now, ticks,
                   issued, spent, req, served, resp>>
    /\ LET call == Val(pending[w]) IN
       /\ users' = IF IsSome(users[call.user])
                   THEN [users EXCEPT ![call.user] =
                           Some([Val(users[call.user]) EXCEPT !.role = call.role])]
                   ELSE users
       /\ pending' = [pending EXCEPT ![w] = Settled(call, 200)]

\* RoleService.deleteRole up to the resolution of User.countDocuments
DeleteRoleCheck(w, roleId) ==
    /\ pending[w] = None
    /\ UNCHANGED <<pureVars, envVars, storeVars, now, ticks, issued, spent, req, served, resp>>
    /\ LET call == ServiceCall("deleteRole", None, "", "", 0, roleId)
       IN pending' = [pending EXCEPT ![w] =
             IF deleteRole(roleId).status # 200
             THEN Settled(call, deleteRole(roleId).status)
             ELSE Some(call)]

\* RoleService.deleteRole from Role.findByIdAndDelete on
DeleteRoleWrite(w) ==
    /\ Awaiting(w, "deleteRole")
    /\ UNCHANGED <<pureVars, envVars, users, audit, nextUserId, nextRoleId, now, ticks,
                   issued, spent, req, served, resp>>
    /\ LET call == Val(pending[w]) IN
       /\ roles' = [roles EXCEPT ![call.role] = None]
       /\ pending' = [pending EXCEPT ![w] = Settled(call, 200)]

NextRoleRace ==
    \/ \E w \in Workers, e \in Emails, r \in RoleIds : CreateUserCheck(w, e, r)
    \/ \E w \in Workers : CreateUserSave(w)
    \/ \E w \in Workers, u \in UserIds, r \in RoleIds : UpdateUserCheck(w, u, r)
    \/ \E w \in Workers : UpdateUserWrite(w)
    \/ \E w \in Workers, r \in RoleIds : DeleteRoleCheck(w, r)
    \/ \E w \in Workers : DeleteRoleWrite(w)

SpecRoleRace == Init /\ [][NextRoleRace]_vars

\* ------------------------------------------------------------------------
\* Requests for PUT /users/profile
\* ------------------------------------------------------------------------
NextProfile ==
    \/ \E e \in Emails, p \in {"secret1"}, r \in RegisterRoleInputs : Register(e, p, r)
    \/ \E e \in Emails, p \in Passwords : Login(e, p)
    \/ \E t \in Presentable :
          AuthenticateToken(Dispatch("PUT /users/profile"), t, ProfileParam, EmptyBody)
    \/ CheckPermission
    \/ Handler
    \/ Finish
    \/ Complete

SpecProfile == Init /\ [][NextProfile]_vars

\* ------------------------------------------------------------------------
\* The two writers of CREATE_USER audit records: the interceptor's actor
\* resolution on arbitrary inputs, and registration
\* ------------------------------------------------------------------------
InitCreateUserAudit == SysInit /\ EvalIdle /\ ActorInit

NextCreateUserAudit ==
    \/ CallResolveActor /\ UNCHANGED <<evalVars, sysVars>>
    \/ \E e \in Emails, p \in {"secret1"}, r \in RegisterRoleInputs : Register(e, p, r)
    \/ \E e \in Emails, p \in Passwords : Login(e, p)
    \/ \E t \in Presentable, b \in BodiesOf("POST /users") :
          AuthenticateToken("POST /users", t, 0, b)
    \/ CheckPermission
    \/ Handler
    \/ Finish
    \/ Complete

SpecCreateUserAudit == InitCreateUserAudit /\ [][NextCreateUserAudit]_vars

\* ------------------------------------------------------------------------
\* Properties of the permission evaluator (checked under SpecRBAC)
\* ------------------------------------------------------------------------

\* the permission list the evaluated principal holds (empty when absent)
HeldPermissions ==
    IF IsSome(evalUser) /\ IsSome(Val(evalUser).role)
       /\ IsSome(Val(Val(evalUser).role).permissions)
    THEN Val(Val(Val(evalUser).role).permissions)
    ELSE <<>>

\* the principal holds p and nothing else
HoldsOnly(p) ==
    /\ Len(HeldPermissions) > 0
    /\ \A i \in 1..Len(HeldPermissions) : HeldPermissions[i] = p

\* C2: canAccessResource(user, owner, required) is
\* hasPermission(user, required + ':self') when user.userId and the owner id
\* are exactly the same string, and hasPermission(user, required) otherwise;
\* a non-owner holding only required:self is denied (also when one id is a
\* prefix or substring of the other), an owner holding only required:self is
\* admitted.
C2_OwnerDecidesSelfScope ==
    (evalCan # Pending /\ IsSome(evalUser) /\ IsSome(evalRequired)
       /\ Val(evalRequired) \in EvalPermissions
       /\ ~EndsWith(Val(evalRequired), SELF_SUFFIX)) =>
      LET required == Val(evalRequired)
          selfPermission == required \o SELF_SUFFIX
          sameId == Val(evalUser).userId = Some(evalOwner)
      IN /\ sameId => evalCan = hasPermission(evalUser, Some(selfPermission))
         /\ ~sameId => evalCan = hasPermission(evalUser, evalRequired)
         /\ (~sameId /\ HoldsOnly(selfPermission)) => evalCan = Return(FALSE)
         /\ (sameId /\ HoldsOnly(selfPermission)) => evalCan = Return(TRUE)

\* C2 witness: a principal "a1" holding only user:read:self asked for
\* user:read on a resource owned by "a12" has been denied
C2_Witness ==
    /\ evalCan = Return(FALSE)
    /\ IsSome(evalUser)
    /\ Val(evalUser).userId = Some(<<"a", "1">>)
    /\ evalOwner = <<"a", "1", "2">>
    /\ evalRequired = Some(Perm(USER, READ))
    /\ HoldsOnly(SelfPerm(USER, READ))

\* C3: for every resource r and action a, holding only r:a:self does not
\* satisfy r:a, and holding r:a satisfies r:a:self.
C3_SelfIsNarrower ==
    \A r \in EvalResources, a \in EvalActions :
      /\ (evalHas # Pending /\ evalRequired = Some(Perm(r, a))
            /\ HoldsOnly(SelfPerm(r, a))) => evalHas = Return(FALSE)
      /\ (evalHas # Pending /\ evalRequired = Some(SelfPerm(r, a))
            /\ Includes(HeldPermissions, Perm(r, a))) => evalHas = Return(TRUE)

\* C4: holding r:* satisfies r:a and r:a:self for every action a.
C4_ResourceWildcard ==
    \A r \in EvalResources, a \in EvalActions \cup {STAR} :
      (evalHas # Pending /\ Includes(HeldPermissions, Perm(r, STAR))
         /\ evalRequired \in {Some(Perm(r, a)), Some(SelfPerm(r, a))})
      => evalHas = Return(TRUE)

\* C4 witness: user:* alone has satisfied user:read:self
C4_Witness ==
    /\ evalHas = Return(TRUE)
    /\ HoldsOnly(Perm(USER, STAR))
    /\ evalRequired = Some(SelfPerm(USER, READ))

\* C5: holding *:* makes hasPermission true for every well-formed required
\* permission.
C5_UniversalWildcard ==
    (evalHas # Pending /\ Includes(HeldPermissions, STAR_STAR)
       /\ IsSome(evalRequired) /\ WellFormed(Val(evalRequired)))
    => evalHas = Return(TRUE)

\* C5 witness: *:* alone has satisfied role:read:self
C5_Witness ==
    /\ evalHas = Return(TRUE)
    /\ HoldsOnly(STAR_STAR)
    /\ evalRequired = Some(SelfPerm(ROLE, READ))

\* some input of the evaluation is absent or malformed
DegenerateInput ==
    \/ ~IsSome(evalUser)
    \/ ~IsSome(Val(evalUser).role)
    \/ ~IsSome(Val(Val(evalUser).role).permissions)
    \/ ~IsSome(evalRequired)
    \/ ~WellFormed(Val(evalRequired))

\* C6: with an absent principal, role or permission list, or an absent or
\* malformed required permission, hasPermission and canAccessResource return
\* false: they neither raise nor return true.
C6_DegenerateInputIsFalse ==
    /\ (evalHas # Pending /\ DegenerateInput) => evalHas = Return(FALSE)
    /\ (evalCan # Pending /\ DegenerateInput) => evalCan = Return(FALSE)


\* ------------------------------------------------------------------------
\* Properties of the server (checked under Spec)
\* ------------------------------------------------------------------------

\* the request in flight was authenticated and its caller holds the
\* permission the route requires
Admitted(r) ==
    /\ IsSome(r.user)
    /\ hasPermission(r.user, Some(RequiredPermission(r.route))) = Return(TRUE)

\* C1: on a route protected by RBAC.checkPermission the gate decides before
\* the handler starts: the handler and the audit hooks only ever run for an
\* authenticated caller holding the required permission; a caller that is
\* unauthenticated or lacks the permission gets 401 or 403, the handler never
\* runs for that request, and the steps that reject it change no user or
\* role record and write no audit record.
C1_GateBeforeHandler ==
    /\ [](IsSome(req) =>
            LET r == Val(req) IN
            /\ (r.stage \in {"handler", "finish"} \/ r.handlerRan \/ r.auditInstalled)
                  => Admitted(r)
            /\ (r.stage \notin {"authenticateToken", "checkPermission"} /\ ~Admitted(r))
                  => /\ r.stage = "done"
                     /\ r.status \in {401, 403}
                     /\ r.sentBy \in {"authenticateToken", "checkPermission"}
                     /\ ~r.handlerRan
                     /\ ~r.auditInstalled)
    /\ [][/\ (IsSome(req') /\ Val(req').stage \in {"checkPermission", "done"})
               => UNCHANGED <<users, roles, audit>>
          /\ Stage("done") => (req' \in {req, None} /\ UNCHANGED <<users, roles, audit>>)
         ]_vars

\* C1 witness: the gate has answered 403 to an authenticated caller whose
\* role lacks the permission of the route
C1_Witness ==
    /\ Stage("done")
    /\ Val(req).status = 403
    /\ Val(req).sentBy = "checkPermission"
    /\ IsSome(Val(req).user)
    /\ ~Val(req).handlerRan

\* C7: a token minted by generatePasswordResetToken is never accepted as an
\* access credential by authenticateToken, and a token minted by
\* generateAccessToken is never accepted by password-reset verification.
C7_NoPurposeConfusion ==
    /\ (IsSome(req) /\ IsSome(Val(req).token)
          /\ Val(Val(req).token).type = Some("password-reset"))
       => /\ Val(req).sentBy = "authenticateToken"
          /\ Val(req).status \in {401, 403}
    /\ (resp.op = "reset-password"
          /\ Val(resp.presented).sig = JWT_ACCESS_SECRET
          /\ Val(resp.presented).type = None)
       => resp.status = 400

\* C8: a refresh that presents a token signed with the access secret (an
\* access token or a password-reset token) fails with "Invalid or expired
\* refresh token" and issues no access or refresh token.
C8_AccessSecretCannotRefresh ==
    [][(served' # served /\ resp'.op = "refresh"
          /\ Val(resp'.presented).sig = JWT_ACCESS_SECRET)
       => /\ resp'.status = 401
          /\ resp'.message = "Invalid or expired refresh token"
          /\ resp'.accessToken = None
          /\ resp'.refreshToken = None
          /\ issued' = issued]_vars

\* C8 witness: a refresh presenting an unexpired password-reset token has
\* been answered 401
C8_Witness ==
    /\ resp.op = "refresh"
    /\ Val(resp.presented).sig = JWT_ACCESS_SECRET
    /\ Val(resp.presented).type = Some("password-reset")
    /\ now < Val(resp.presented).exp
    /\ resp.status = 401

\* C9: verifying the access token issued for a user with a resolved role
\* returns, until the token expires, that user's id, the id of the user's
\* role and exactly the permission list the role had at issuance.
C9_AccessRoundTrip ==
    /\ (resp.op \in {"register", "login", "refresh"} /\ IsSome(resp.accessToken)) =>
         LET token == Val(resp.accessToken)
             principal == IF resp.op = "refresh"
                          THEN Val(resp.presented).userId
                          ELSE UserIdToString(Val(resp.user))
             decoded == verifyAccessToken(token)
         IN /\ IsSome(decoded)
            /\ \E u \in UserIds :
                 /\ UserIdToString(u) = principal
                 /\ IsSome(users[u])
                 /\ IsSome(roles[Val(users[u]).role])
                 /\ Val(decoded).userId = UserIdToString(u)
                 /\ Val(decoded).roleId = Some(RoleIdToString(Val(users[u]).role))
                 /\ Val(decoded).permissions
                      = Some(Val(roles[Val(users[u]).role]).permissions)
    /\ \A t \in issued :
         (t.sig = JWT_ACCESS_SECRET /\ t.type = None /\ now < t.iat + JWT_ACCESS_EXPIRES_IN)
         => /\ IsSome(verifyAccessToken(t))
            /\ Val(verifyAccessToken(t)).userId = t.userId
            /\ Val(verifyAccessToken(t)).roleId = t.roleId
            /\ Val(verifyAccessToken(t)).permissions = t.permissions

\* C9 witness: a registered user of role "user" has logged in and the access
\* token of the response verifies
C9_Witness ==
    /\ resp.op = "login"
    /\ resp.status = 200
    /\ resp.user = Some(2)
    /\ IsSome(verifyAccessToken(Val(resp.accessToken)))
    /\ Val(verifyAccessToken(Val(resp.accessToken))).permissions
         = Some(<<SelfPerm(USER, READ), SelfPerm(USER, UPDATE)>>)

\* C10: a refresh succeeds only when the presented token verifies as a
\* refresh token and the user it names exists and is active at that moment;
\* a successful refresh returns one access token and one refresh token issued
\* at that moment, and a failed refresh issues no token.
C10_RefreshOnlyForLiveUser ==
    [][(served' # served /\ resp'.op = "refresh") =>
         LET token == Val(resp'.presented) IN
         IF resp'.status = 200
         THEN /\ token.sig = JWT_REFRESH_SECRET
              /\ now < token.exp
              /\ \E u \in UserIds :
                   /\ UserIdToString(u) = token.userId
                   /\ IsSome(users[u])
                   /\ Val(users[u]).isActive
              /\ IsSome(resp'.accessToken)
              /\ IsSome(resp'.refreshToken)
              /\ LET a == Val(resp'.accessToken)
                     r == Val(resp'.refreshToken)
                 IN /\ a.sig = JWT_ACCESS_SECRET /\ a.type = None
                    /\ r.sig = JWT_REFRESH_SECRET
                    /\ a.iat = now /\ r.iat = now
                    /\ a.userId = token.userId /\ r.userId = token.userId
                    /\ issued' = issued \cup {a, r}
         ELSE /\ resp'.accessToken = None
              /\ resp'.refreshToken = None
              /\ issued' = issued]_vars

\* C10 witness: a refresh with a valid refresh token of a user that has been
\* deleted in the meantime has been refused
C10_Witness ==
    /\ resp.op = "refresh"
    /\ resp.status = 401
    /\ resp.message = "User not found or inactive"
    /\ IsSome(verifyRefreshToken(Val(resp.presented)))
    /\ FindUserByIdString(Val(resp.presented).userId) = {}

\* ------------------------------------------------------------------------
\* Properties of login, password reset and the audit trail (checked under
\* Spec unless stated otherwise)
\* ------------------------------------------------------------------------

\* an account is registered under email e and it is deactivated
Deactivated(e) ==
    /\ FindUserByEmail(e) # {}
    /\ \A u \in FindUserByEmail(e) : ~Val(users[u]).isActive

\* the step appends exactly one record, of the given action, to the audit log
OneMoreRecord(action) ==
    /\ Len(audit') = Len(audit) + 1
    /\ SubSeq(audit', 1, Len(audit)) = audit
    /\ audit'[Len(audit')].action = action

\* C11: a login for a deactivated account is answered 401 "Account is
\* deactivated", whatever the password; it writes exactly one FAILED_LOGIN
\* audit record (none only while the audit store rejects writes), issues no
\* access or refresh token and changes no user record.
C11_DeactivatedLoginRejected ==
    [][\A e \in Emails, p \in Passwords :
         (Deactivated(e) /\ Login(e, p)) =>
            /\ resp' = StatusOnly("login", None, 401, "Account is deactivated")
            /\ resp'.accessToken = None
            /\ resp'.refreshToken = None
            /\ issued' = issued
            /\ users' = users
            /\ IF auditUp THEN OneMoreRecord("FAILED_LOGIN") ELSE audit' = audit]_vars

\* C11 witness: the seeded administrator, deactivated through PUT /users/:id,
\* has tried to log in and the attempt is on record
C11_Witness ==
    /\ resp.op = "login"
    /\ resp.message = "Account is deactivated"
    /\ Deactivated("admin@gmail.com")
    /\ BcryptCompare("Admin123", Val(users[1]).password)
    /\ Len(audit) > 0
    /\ audit[Len(audit)].action = "FAILED_LOGIN"
    /\ audit[Len(audit)].userId = Some(UserIdToString(1))

\* C12: a login whose password does not match the account's is always
\* answered 401 "Invalid credentials", exactly the answer given for an email
\* that is not registered, so the response does not tell whether the email
\* belongs to an account.
C12_WrongSecretIsInvalidCredentials ==
    [][\A e \in Emails, p \in Passwords :
         (/\ Login(e, p)
          /\ \/ FindUserByEmail(e) = {}
             \/ \E u \in FindUserByEmail(e) :
                  ~BcryptCompare(p, Val(users[u]).password))
         => resp' = StatusOnly("login", None, 401, "Invalid credentials")]_vars

\* C13: every rejected login (unknown email, wrong password, deactivated
\* account) writes, while the audit store accepts writes, one FAILED_LOGIN
\* audit record whose snapshot carries the attempted email and whose userId
\* is null.
C13_FailedLoginRecord ==
    [][\A e \in Emails, p \in Passwords :
         (/\ Login(e, p)
          /\ auditUp
          /\ \/ FindUserByEmail(e) = {}
             \/ Deactivated(e)
             \/ \E u \in FindUserByEmail(e) :
                  ~BcryptCompare(p, Val(users[u]).password))
         => /\ OneMoreRecord("FAILED_LOGIN")
            /\ audit'[Len(audit')].userId = None
            /\ IsSome(audit'[Len(audit')].after)
            /\ Val(audit'[Len(audit')].after).email = Some(e)]_vars

\* C14: the response to forgot-password is the same whether or not an
\* account exists for the submitted email: status 200, the one fixed message
\* and no data.
C14_ForgotPasswordUniform ==
    resp.op = "forgot-password"
       => resp = StatusOnly("forgot-password", None, 200, ForgotMessage)

\* C15: once a password reset has succeeded with a token, every later
\* reset-password request presenting the same token string fails (400) and
\* leaves every user record, the password included, unchanged.
C15_ResetTokenOneShot ==
    [][(/\ served' # served
        /\ resp'.op = "reset-password"
        /\ Val(resp'.presented) \in spent)
       => /\ resp'.status = 400
          /\ users' = users]_vars

\* C16: while a request travels through a route wrapped by
\* AuditLogger.auditAction, the only step that writes an audit record is the
\* 'finish' callback of a response whose status is 2xx, and it writes exactly
\* one record, for that route's action and resource id; a request that ends
\* with any other status writes no audit record at any step.
C16_AuditOnlyOnSuccess ==
    [][(IsSome(req) \/ IsSome(req')) =>
         IF /\ Stage("finish")
            /\ Val(req).status >= 200
            /\ Val(req).status < 300
            /\ auditUp
         THEN /\ OneMoreRecord(AuditActionOf(Val(req).route))
              /\ audit'[Len(audit')].resourceId
                   = Some(ParamToString(Val(req).route, Val(req).id))
         ELSE audit' = audit]_vars

\* C16 witness: the controller has answered 403 (an attempt to rename the
\* super-admin role) and the 'finish' callback is about to run while the
\* audit store accepts writes
C16_Witness ==
    /\ Stage("finish")
    /\ Val(req).route = "PUT /roles/:id"
    /\ Val(req).status = 403
    /\ Val(req).sentBy = "handler"
    /\ Val(req).auditInstalled
    /\ auditUp

\* ------------------------------------------------------------------------
\* Properties of the CREATE_USER actor (checked under SpecCreateUserAudit)
\* ------------------------------------------------------------------------

\* C17: the actor id of a CREATE_USER audit record is the authenticated
\* caller's id when the request has one; otherwise it is the id of the
\* created user found in the operation's result (data._id, else _id of the
\* response; the saved user for a registration); it is null only when neither
\* is available.
C17_CreateUserActor ==
    /\ (actorResult.kind = "resolved" /\ actorAction = "CREATE_USER") =>
         LET authenticated == IF IsSome(actorUser) THEN Val(actorUser).userId ELSE None
             result == IF IsSome(actorResponse) /\ Val(actorResponse).parses
                       THEN actorResponse ELSE None
             created == IF ~IsSome(result) THEN None
                        ELSE IF /\ IsSome(Val(result).data)
                                /\ IsSome(Val(Val(result).data)._id)
                        THEN Val(Val(result).data)._id
                        ELSE Val(result)._id
         IN /\ IsSome(authenticated) => actorResult.value = authenticated
            /\ (~IsSome(authenticated) /\ IsSome(created)) => actorResult.value = created
            /\ (~IsSome(authenticated) /\ ~IsSome(created)) => actorResult.value = None
    /\ (resp.op = "register" /\ resp.status = 201) =>
         /\ Len(audit) > 0
         /\ audit[Len(audit)].action = "CREATE_USER"
         /\ audit[Len(audit)].userId = Some(UserIdToString(Val(resp.user)))
         /\ IsSome(users[Val(resp.user)])

\* C17 witness: a registration has been recorded, and the interceptor has
\* resolved the actor of an unauthenticated CREATE_USER request from the
\* data._id of its response
C17_Witness ==
    /\ resp.op = "register"
    /\ resp.status = 201
    /\ actorAction = "CREATE_USER"
    /\ actorUser = None
    /\ IsSome(actorResponse)
    /\ IsSome(Val(actorResponse).data)
    /\ actorResult.kind = "resolved"
    /\ actorResult.value = Some(UserIdToString(MaxActors + 1))

\* ------------------------------------------------------------------------
\* Properties of the audit trail (checked under Spec)
\* ------------------------------------------------------------------------

\* C18: no stored audit record carries, in its before or in its after
\* snapshot, a user's password (plain or hashed) or a user's stored
\* password-reset token.
C18_NoSecretInAudit ==
    \A i \in 1..Len(audit) :
       \A snapshot \in {audit[i].before, audit[i].after} :
          IsSome(snapshot) =>
             /\ Val(snapshot).password = None
             /\ Val(snapshot).resetPasswordToken = None

\* C19: while the audit store rejects writes, no record is written and every
\* operation still gives the caller its normal result and keeps its changes:
\* login answers by the credentials alone, a registration that created the
\* user answers 201 with both tokens, forgot-password answers 200 and hands
\* out the token it stored, a reset that replaced the password answers 200,
\* and the 'finish' callback of a protected route changes no user or role
\* record.
C19_AuditFailureSwallowed ==
    [][~auditUp =>
         /\ audit' = audit
         /\ \A e \in Emails, p \in Passwords :
              Login(e, p) =>
                IF FindUserByEmail(e) = {}
                THEN resp'.status = 401 /\ resp'.message = "Invalid credentials"
                ELSE LET u == CHOOSE u \in FindUserByEmail(e) : TRUE IN
                     IF ~Val(users[u]).isActive
                     THEN resp'.status = 401 /\ resp'.message = "Account is deactivated"
                     ELSE IF Val(users[u]).password # BcryptHash(p)
                     THEN resp'.status = 401 /\ resp'.message = "Invalid credentials"
                     ELSE /\ Val(users'[u]).lastLogin = Some(now)
                          /\ IsSome(roles[Val(users[u]).role]) =>
                               /\ resp'.status = 200
                               /\ resp'.user = Some(u)
                               /\ IsSome(resp'.accessToken)
                               /\ IsSome(resp'.refreshToken)
                               /\ {Val(resp'.accessToken), Val(resp'.refreshToken)}
                                     \subseteq issued'
         /\ (served' # served /\ resp'.op = "register" /\ users' # users) =>
              /\ resp'.status = 201
              /\ IsSome(users'[Val(resp'.user)])
              /\ IsSome(resp'.accessToken)
              /\ IsSome(resp'.refreshToken)
         /\ (served' # served /\ resp'.op = "forgot-password") =>
              /\ resp'.status = 200
              /\ resp'.message = ForgotMessage
              /\ users' # users =>
                   \E u \in UserIds : Val(users'[u]).resetPasswordToken = resp'.resetToken
         /\ (served' # served /\ resp'.op = "reset-password" /\ users' # users) =>
              /\ resp'.status = 200
              /\ \E u \in UserIds :
                   /\ UserIdToString(u) = Val(resp'.presented).userId
                   /\ Val(users'[u]).password = BcryptHash("secret1")
                   /\ Val(users'[u]).resetPasswordToken = None
         /\ Stage("finish") =>
              /\ req' = None
              /\ users' = users
              /\ roles' = roles]_vars

\* C19 witness: after the audit store went down, a password reset has
\* replaced the password and answered 200 although no CHANGE_PASSWORD record
\* could be written
C19_Witness ==
    /\ ~auditUp
    /\ resp.op = "reset-password"
    /\ resp.status = 200
    /\ Val(users[1]).password = BcryptHash("secret1")
    /\ \A i \in 1..Len(audit) : audit[i].action # "CHANGE_PASSWORD"

\* ------------------------------------------------------------------------
\* Properties of role management (checked under SpecRoles)
\* ------------------------------------------------------------------------

\* C20: after any sequence of role creations, updates and deletions on the
\* seeded roles, a role named "super-admin" exists and its permission list
\* contains "*:*".
C20_SuperAdminKeepsWildcard ==
    \E r \in RoleIds :
       /\ IsSome(roles[r])
       /\ Val(roles[r]).name = "super-admin"
       /\ \E i \in 1..Len(Val(roles[r]).permissions) :
             Val(roles[r]).permissions[i] = STAR_STAR

\* C20 witness: the seeded "admin" role has been deleted, a new role has been
\* created and the permissions of "super-admin" have been updated
C20_Witness ==
    /\ ~IsSome(roles[2])
    /\ IsSome(roles[NumSeedRoles + 1])
    /\ Val(roles[1]).name = "super-admin"
    /\ Val(roles[1]).permissions = <<Perm(USER, READ), STAR_STAR>>

\* C21: deleting the role named "super-admin" is always answered 403,
\* whether or not a user is assigned to it, and the call changes no role, no
\* user and no audit record.
C21_SuperAdminDeleteRejected ==
    [][\A r \in RoleIds :
         (/\ IsSome(roles[r])
          /\ Val(roles[r]).name = "super-admin"
          /\ CallDeleteRole(r))
         => /\ resp'.status = 403
            /\ roles' = roles
            /\ users' = users
            /\ audit' = audit]_vars

\* C21 witness: the deletion of "super-admin" has been answered 403 while no
\* user is assigned to that role
C21_Witness ==
    /\ resp.op = "deleteRole"
    /\ resp.status = 403
    /\ \E r \in RoleIds : IsSome(roles[r]) /\ Val(roles[r]).name = "super-admin"
    /\ \A u \in UserIds :
          IsSome(users[u]) =>
             Val(roles[Val(users[u]).role]).name # "super-admin"

\* C22: deleting a role other than "super-admin" that is assigned to at
\* least one user is answered 409 and changes nothing; a step that removes a
\* role is a deletion answered 200 of a role no user is assigned to.
C22_RoleInUseRejected ==
    [][/\ \A r \in RoleIds :
            (/\ IsSome(roles[r])
             /\ Val(roles[r]).name # "super-admin"
             /\ \E u \in UserIds : IsSome(users[u]) /\ Val(users[u]).role = r
             /\ CallDeleteRole(r))
            => /\ resp'.status = 409
               /\ roles' = roles
               /\ users' = users
       /\ \A r \in RoleIds :
            (IsSome(roles[r]) /\ ~IsSome(roles'[r]))
            => /\ resp' = RoleResponse("deleteRole", 200)
               /\ \A u \in UserIds : IsSome(users[u]) => Val(users[u]).role # r]_vars

\* C22 witness: the deletion of the role "user", assigned to the seeded
\* administrator, has been answered 409 and the role is still stored
C22_Witness ==
    /\ resp.op = "deleteRole"
    /\ resp.status = 409
    /\ Val(users[1]).role = 4
    /\ IsSome(roles[4])
    /\ Val(roles[4]).name = "user"

\* ------------------------------------------------------------------------
\* Properties of sessions (checked under SpecSessions)
\* ------------------------------------------------------------------------

C24_SnapshotsAreStoredState ==
    \A i \in 1..Len(audit) :
       audit[i].action \in {"UPDATE_ROLE", "DELETE_ROLE"} =>
          /\ IsSome(audit[i].before)
          /\ Val(audit[i].before)._id = audit[i].resourceId
          /\ IsSome(Val(audit[i].before).name)
          /\ IsSome(Val(audit[i].before).permissions)
          /\ audit[i].action = "UPDATE_ROLE" =>
               /\ IsSome(audit[i].after)
               /\ Val(audit[i].after)._id = audit[i].resourceId
               /\ IsSome(Val(audit[i].after).name)
               /\ IsSome(Val(audit[i].after).permissions)

\* ------------------------------------------------------------------------
\* Properties of POST /users (checked under SpecCreateUserAudit)
\* ------------------------------------------------------------------------

\* C25: when POST /users has answered 201 to an authenticated caller, the
\* 'finish' callback writes exactly one CREATE_USER record whose actor is the
\* caller and whose resource id is the id of the created user.
C25_CreateUserRecord ==
    [][(/\ Stage("finish")
        /\ Val(req).route = "POST /users"
        /\ Val(req).status = 201
        /\ auditUp
        /\ req' = None)
       => /\ OneMoreRecord("CREATE_USER")
          /\ audit'[Len(audit')].userId = Val(Val(req).user).userId
          /\ audit'[Len(audit')].resourceId
                = Val(Val(Val(req).responseData).data)._id]_vars

\* ------------------------------------------------------------------------
\* Properties of the own-profile route (checked under SpecProfile)
\* ------------------------------------------------------------------------

\* C28: a request for PUT /users/profile by an authenticated caller whose
\* role holds "user:update:self" passes the permission gate and reaches the
\* controller; it is never answered 403 by the gate.
C28_OwnProfileAdmitted ==
    (/\ IsSome(req)
     /\ Val(req).id = ProfileParam
     /\ Val(req).stage \notin {"authenticateToken", "checkPermission"}
     /\ IsSome(Val(req).user)
     /\ IsSome(Val(Val(req).user).role)
     /\ Includes(Val(Val(Val(Val(req).user).role).permissions), SelfPerm(USER, UPDATE)))
    => /\ Val(req).stage \in {"handler", "finish"}
       /\ Val(req).sentBy # "checkPermission"
       /\ Val(req).status # 403

\* ------------------------------------------------------------------------
\* Properties of authentication on protected routes (checked under Spec)
\* ------------------------------------------------------------------------

\* C29: the permission gate admits a request exactly when the permissions
\* stored, at the time of the request, in the current role of the caller
\* contain the required permission, the wildcard of its resource or the
\* universal wildcard; the permission list embedded in the presented token
\* has no influence.
C29_GateReadsStoredRole ==
    [][ (Stage("checkPermission") /\ IsSome(req') /\ Val(req').stage \in {"handler", "done"})
        => \E u \in UserIds :
             /\ IsSome(users[u])
             /\ Val(Val(req).token).userId = UserIdToString(u)
             /\ LET role == Val(users[u]).role
                    stored == IF role \in RoleIds /\ IsSome(roles[role])
                              THEN Val(roles[role]).permissions ELSE <<>>
                    required == RequiredPermission(Val(req).route)
                    wildcard == IF Val(req).route \in RoleRoutes
                                THEN Perm(ROLE, <<"*">>) ELSE Perm(USER, <<"*">>)
                IN (Val(req').stage = "handler")
                   <=> \/ Includes(stored, required)
                       \/ Includes(stored, wildcard)
                       \/ Includes(stored, STAR_STAR) ]_vars

\* a request bearing a token that embeds the universal wildcard is refused
\* by the gate, the caller's stored role having lost the permission since
C29_Witness ==
    /\ Stage("done")
    /\ Val(req).sentBy = "checkPermission"
    /\ Val(req).status = 403
    /\ IsSome(Val(Val(req).token).permissions)
    /\ Includes(Val(Val(Val(req).token).permissions), STAR_STAR)

\* C30: a request that presents an unexpired access token of a principal
\* that is deleted or deactivated is answered 401 by authenticateToken, the
\* gate and the controller do not run and nothing is stored; a refresh with
\* a refresh token of such a principal is answered 401 and issues no token.
C30_DeadPrincipalLockedOut ==
    [][/\ (~IsSome(req) /\ IsSome(req') /\ IsSome(Val(req').token)
           /\ LET token == Val(Val(req').token) IN
              /\ token.sig = JWT_ACCESS_SECRET
              /\ now < token.exp
              /\ ~\E u \in UserIds : /\ UserIdToString(u) = token.userId
                                     /\ IsSome(users[u])
                                     /\ Val(users[u]).isActive)
          => /\ Val(req').stage = "done"
             /\ Val(req').status = 401
             /\ Val(req').sentBy = "authenticateToken"
             /\ ~Val(req').handlerRan
             /\ ~Val(req').auditInstalled
             /\ users' = users /\ roles' = roles /\ audit' = audit
       /\ (served' # served /\ resp'.op = "refresh"
           /\ ~\E u \in UserIds : /\ UserIdToString(u) = Val(resp'.presented).userId
                                  /\ IsSome(users[u])
                                  /\ Val(users[u]).isActive)
          => /\ resp'.status = 401
             /\ resp'.accessToken = None
             /\ resp'.refreshToken = None
             /\ issued' = issued]_vars

\* C30 witness: a registered user was deactivated and a request presenting
\* its still valid access token has been refused by authenticateToken
C30_Witness ==
    /\ Stage("done")
    /\ Val(req).sentBy = "authenticateToken"
    /\ Val(req).status = 401
    /\ IsSome(Val(req).token)
    /\ IsSome(verifyAccessToken(Val(Val(req).token)))
    /\ Val(Val(req).token).userId = UserIdToString(2)
    /\ IsSome(users[2])
    /\ ~Val(users[2]).isActive

\* ------------------------------------------------------------------------
\* Properties of interleaved service calls (checked under SpecResetRace and
\* SpecRoleRace)
\* ------------------------------------------------------------------------

\* C26: of the reset-password calls that present the same reset token, at
\* most one replaces the password and answers 200, however the calls are
\* interleaved.
C26_OneResetPerToken ==
    \A v, w \in Workers :
       (/\ v # w
        /\ IsSome(pending[v]) /\ IsSome(pending[w])
        /\ Val(pending[v]).op = "resetPassword" /\ Val(pending[w]).op = "resetPassword"
        /\ Val(pending[v]).token = Val(pending[w]).token
        /\ Val(pending[v]).stage = "done" /\ Val(pending[v]).status = 200)
       => ~(Val(pending[w]).stage = "done" /\ Val(pending[w]).status = 200)

\* C27: however user creation, role reassignment and role deletion are
\* interleaved, the role of every stored user is a stored role.
C27_RoleReferenceExists ==
    \A u \in UserIds :
       IsSome(users[u]) =>
          /\ Val(users[u]).role \in RoleIds
          /\ IsSome(roles[Val(users[u]).role])

====
